---- MODULE Spec2Model ----
(***************************************************************************)
(* Calendify: weekly availability, slot resolution against the owner's     *)
(* Google calendar, and the meeting commit workflow.                       *)
(*                                                                         *)
(* Time is counted in minutes.  Instant 0 is Monday 2026-03-02T00:00Z, so  *)
(* instant 6 * 1440 is Sunday 2026-03-08T00:00Z, the day the United States *)
(* switch to daylight saving time.  A JavaScript Date is an instant; its   *)
(* "local" fields are the wall clock of the zone the host process runs in. *)
(***************************************************************************)
EXTENDS Integers, Sequences, FiniteSets, TLC

VARIABLES
  hostTz,                     \* local time zone of the process running the server code
  ScheduleTable,              \* rows of table "schedules"
  ScheduleAvailabilityTable,  \* rows of table "scheduleAvailabilities", in insertion order
  calendar,                   \* per owner: the events of the primary Google calendar
  googleUp,                   \* whether Google answers the next call (token, list, insert)
  page,                       \* the BookingPage render in progress
  meeting,                    \* per guest: the createMeeting call in progress
  resolving,                  \* a getValidTimesFromSchedule server action called directly
  saving,                     \* per caller: the saveSchedule call in progress
  clock                       \* the server's clock: the instant new Date() gives

vars == <<hostTz, ScheduleTable, ScheduleAvailabilityTable, calendar, googleUp, page, meeting,
          resolving, saving, clock>>

-----------------------------------------------------------------------------
(* Bounds of the model *)

MaxCandidates == 3     \* longest candidate list a page render enumerates
MaxRules == 2          \* longest availability list of a stored schedule
MaxExternal == 2       \* events other people put on an owner's calendar
NumGuests == 2         \* concurrent createMeeting calls
NumSavers == 2         \* concurrent saveSchedule calls

-----------------------------------------------------------------------------
(* Small helpers *)

Min(a, b) == IF a <= b THEN a ELSE b
Max(a, b) == IF a >= b THEN a ELSE b
SetMin(S) == CHOOSE x \in S : \A y \in S : x <= y
Range(s) == {s[i] : i \in 1..Len(s)}

MinutesPerHour == 60
MinutesPerDay == 24 * MinutesPerHour

-----------------------------------------------------------------------------
(* Time zones: the IANA data the JavaScript runtime consults *)

Zones == {"UTC", "Asia/Tokyo", "America/New_York", "America/Phoenix"}

\* 2026-03-08T07:00Z: 02:00 EST becomes 03:00 EDT
NewYorkDstStart == 6 * MinutesPerDay + 7 * MinutesPerHour

\* offset of zone tz from UTC (wall clock minus UTC) at instant t
ZoneOffset(tz, t) ==
  CASE tz = "UTC" -> 0
    [] tz = "Asia/Tokyo" -> 9 * MinutesPerHour
    [] tz = "America/Phoenix" -> -7 * MinutesPerHour
    [] tz = "America/New_York" ->
         IF t >= NewYorkDstStart THEN -4 * MinutesPerHour ELSE -5 * MinutesPerHour

\* every offset zone tz has within the modelled weeks
ZoneOffsets(tz) == {ZoneOffset(tz, 0), ZoneOffset(tz, NewYorkDstStart)}

\* wall clock of instant t in zone tz, as minutes since Monday 2026-03-02 00:00 wall time
WallClock(tz, t) == t + ZoneOffset(tz, t)

\* ECMAScript UTC(t_local): the instant of a wall-clock time in zone tz; a time
\* skipped by a forward transition is read with the offset before the transition,
\* a repeated one as its first occurrence
LocalToInstant(tz, w) ==
  LET guesses == {w - o : o \in ZoneOffsets(tz)}
      possible == {u \in guesses : WallClock(tz, u) = w}
  IN IF possible = {}
       THEN w - ZoneOffset(tz, SetMin(guesses))
       ELSE SetMin(possible)

DAYS_OF_WEEK_IN_ORDER ==
  <<"monday", "tuesday", "wednesday", "thursday", "friday", "saturday", "sunday">>

\* day of the week of the calendar date a wall-clock time falls on
DayOfWall(w) == DAYS_OF_WEEK_IN_ORDER[((w \div MinutesPerDay) % 7) + 1]

\* date-fns isMonday .. isSunday: Date.getDay() in the host's zone
dayOfWeekOf(host, date) == DayOfWall(WallClock(host, date))

\* date-fns setHours: Date.setHours in the host's zone (date, minutes kept)
setHours(host, date, hours) ==
  LET w == WallClock(host, date)
  IN LocalToInstant(host, (w \div MinutesPerDay) * MinutesPerDay
                          + hours * MinutesPerHour + (w % MinutesPerHour))

\* date-fns setMinutes: Date.setMinutes in the host's zone (date, hour kept)
setMinutes(host, date, minutes) ==
  LET w == WallClock(host, date)
  IN LocalToInstant(host, (w \div MinutesPerHour) * MinutesPerHour + minutes)

\* date-fns addMinutes: arithmetic on the instant
addMinutes(date, amount) == date + amount

\* date-fns-tz fixOffset: settle the offset of a wall-clock time near a transition
fixOffset(localTS, offset, tz) ==
  LET utcGuess == localTS - offset
      o2 == ZoneOffset(tz, utcGuess)
      o3 == ZoneOffset(tz, utcGuess - (o2 - offset))
  IN IF offset = o2 THEN offset
     ELSE IF o2 = o3 THEN o2
     ELSE Max(o2, o3)

\* date-fns-tz fromZonedTime: the host-local fields of date, read as a wall clock
\* of zone tz
fromZonedTime(host, date, tz) ==
  LET utc == WallClock(host, date)
      offset == ZoneOffset(tz, WallClock(host, utc))
  IN utc - fixOffset(utc, offset, tz)

\* date-fns-tz toZonedTime: the Date whose local fields (in the zone of the process
\* that runs it) show the wall clock of date in zone tz
toZonedTime(local, date, tz) == LocalToInstant(local, WallClock(tz, date))

\* a faulty containment test: the end of the interval is excluded
isWithinIntervalOpenEnd(date, interval) ==
  /\ date >= Min(interval.start, interval.end)
  /\ date < Max(interval.start, interval.end)

\* date-fns isWithinInterval: closed interval, ends put in order first
isWithinInterval(date, interval) ==
  /\ date >= Min(interval.start, interval.end)
  /\ date <= Max(interval.start, interval.end)

\* a faulty overlap test: only a busy interval that starts inside the meeting counts
areIntervalsOverlappingStartInside(left, right) ==
  /\ left.start >= right.start
  /\ left.start < right.end

\* a faulty overlap test: intervals that only touch count as overlapping
areIntervalsOverlappingInclusive(left, right) ==
  /\ Min(left.start, left.end) <= Max(right.start, right.end)
  /\ Min(right.start, right.end) <= Max(left.start, left.end)

\* date-fns areIntervalsOverlapping: strict comparison, ends put in order first
areIntervalsOverlapping(left, right) ==
  /\ Min(left.start, left.end) < Max(right.start, right.end)
  /\ Min(right.start, right.end) < Max(left.start, left.end)

-----------------------------------------------------------------------------
(* The database *)

Users == {"u1", "u2"}

NoSchedule == [none |-> "schedule"]
NoEvent == [none |-> "event"]

\* rows of table "events"; the event forms are not part of this model, the table is fixed
EventTable ==
  { [id |-> "e30", clerkUserId |-> "u1", durationInMinutes |-> 30, isActive |-> TRUE],
    [id |-> "e15", clerkUserId |-> "u1", durationInMinutes |-> 15, isActive |-> TRUE],
    [id |-> "eOff", clerkUserId |-> "u1", durationInMinutes |-> 30, isActive |-> FALSE],
    [id |-> "eU2", clerkUserId |-> "u2", durationInMinutes |-> 30, isActive |-> TRUE] }

EventIds == {e.id : e \in EventTable}

\* an availability as the schedule form submits it; a time "HH:MM" is <<HH, MM>>
Rule(day, sh, sm, eh, em) ==
  [dayOfWeek |-> day, startTime |-> <<sh, sm>>, endTime |-> <<eh, em>>]

RulePool ==
  { Rule("monday", 0, 0, 2, 0),
    Rule("monday", 9, 0, 17, 0),
    Rule("monday", 10, 0, 12, 0),
    Rule("sunday", 2, 30, 2, 45) }

RECURSIVE SeqsUpTo(_, _)
SeqsUpTo(S, n) ==
  IF n = 0 THEN {<<>>}
  ELSE LET shorter == SeqsUpTo(S, n - 1)
       IN shorter \cup {Append(s, x) : s \in {q \in shorter : Len(q) = n - 1}, x \in S}

\* timeToFloat: hours + minutes / 60, kept here in sixtieths of an hour
timeToFloat(time) == time[1] * 60 + time[2]

\* a faulty overlap scan: an availability is compared with the earlier ones only
overlapsEarlier(availabilities, index) ==
  \E i \in 1..Len(availabilities) :
    /\ i < index
    /\ availabilities[i].dayOfWeek = availabilities[index].dayOfWeek
    /\ timeToFloat(availabilities[i].startTime) < timeToFloat(availabilities[index].endTime)
    /\ timeToFloat(availabilities[i].endTime) > timeToFloat(availabilities[index].startTime)

\* a faulty overlap scan: the day of the week is not compared
overlapsAnyDay(availabilities, index) ==
  \E i \in 1..Len(availabilities) :
    /\ i # index
    /\ timeToFloat(availabilities[i].startTime) < timeToFloat(availabilities[index].endTime)
    /\ timeToFloat(availabilities[i].endTime) > timeToFloat(availabilities[index].startTime)

\* scheduleFormSchema.superRefine: the issues of an availability list
overlaps(availabilities, index) ==
  \E i \in 1..Len(availabilities) :
    /\ i # index
    /\ availabilities[i].dayOfWeek = availabilities[index].dayOfWeek
    /\ timeToFloat(availabilities[i].startTime) < timeToFloat(availabilities[index].endTime)
    /\ timeToFloat(availabilities[i].endTime) > timeToFloat(availabilities[index].startTime)

\* a faulty refinement: an availability that ends when it starts passes
superRefineStrictOrder(availabilities) ==
  {<<index - 1, "startTime", "Availability overlaps with another">> :
      index \in {i \in 1..Len(availabilities) : overlaps(availabilities, i)}}
  \cup
  {<<index - 1, "endTime", "End time must be after start time">> :
      index \in {i \in 1..Len(availabilities) :
                   timeToFloat(availabilities[i].startTime)
                     > timeToFloat(availabilities[i].endTime)}}

\* an issue is <<index, field, message>>, index counting from 0 as in the source
superRefine(availabilities) ==
  {<<index - 1, "startTime", "Availability overlaps with another">> :
      index \in {i \in 1..Len(availabilities) : overlaps(availabilities, i)}}
  \cup
  {<<index - 1, "endTime", "End time must be after start time">> :
      index \in {i \in 1..Len(availabilities) :
                   timeToFloat(availabilities[i].startTime)
                     >= timeToFloat(availabilities[i].endTime)}}

\* a faulty parse: the issues of the refinement do not make it fail
safeParseScheduleLenient(data) == data.timezone \in Zones

\* scheduleFormSchema.safeParse(...).success
safeParseSchedule(data) ==
  /\ data.timezone \in Zones
  /\ superRefine(data.availabilities) = {}

\* getSchedule: the owner's schedule row with its availabilities, or nothing
getSchedule(userId) ==
  IF \E s \in ScheduleTable : s.clerkUserId = userId
    THEN LET s == CHOOSE r \in ScheduleTable : r.clerkUserId = userId
             rows == SelectSeq(ScheduleAvailabilityTable, LAMBDA a : a.scheduleId = s.id)
         IN [timezone |-> s.timezone,
             availabilities |->
               [i \in 1..Len(rows) |->
                  [dayOfWeek |-> rows[i].dayOfWeek,
                   startTime |-> rows[i].startTime,
                   endTime |-> rows[i].endTime]]]
    ELSE NoSchedule

-----------------------------------------------------------------------------
(* The slot resolver *)

\* Object.groupBy(schedule.availabilities, a => a.dayOfWeek)
groupBy(availabilities) ==
  [d \in {availabilities[i].dayOfWeek : i \in 1..Len(availabilities)} |->
     SelectSeq(availabilities, LAMBDA a : a.dayOfWeek = d)]

\* one rule's window on the host-local date of date, read as a wall clock of timezone
availabilityWindow(host, rule, date, timezone) ==
  [start |-> fromZonedTime(host,
               setMinutes(host, setHours(host, date, rule.startTime[1]), rule.startTime[2]),
               timezone),
   end |-> fromZonedTime(host,
             setMinutes(host, setHours(host, date, rule.endTime[1]), rule.endTime[2]),
             timezone)]

getAvailabilities(host, groupedAvailabilities, date, timezone) ==
  LET dayOfWeek == dayOfWeekOf(host, date)
  IN IF dayOfWeek \notin DOMAIN groupedAvailabilities
       THEN <<>>
       ELSE LET dayAvailabilities == groupedAvailabilities[dayOfWeek]
            IN [i \in 1..Len(dayAvailabilities) |->
                  availabilityWindow(host, dayAvailabilities[i], date, timezone)]

\* a faulty predicate: only the end of the meeting has to lie in a window
keepsTimeEndOnly(host, schedule, eventTimes, durationInMinutes, intervalDate) ==
  LET availabilities ==
        getAvailabilities(host, groupBy(schedule.availabilities), intervalDate,
                          schedule.timezone)
      eventInterval ==
        [start |-> intervalDate, end |-> addMinutes(intervalDate, durationInMinutes)]
  IN /\ \A eventTime \in eventTimes : ~areIntervalsOverlapping(eventTime, eventInterval)
     /\ \E i \in 1..Len(availabilities) :
          isWithinInterval(eventInterval.end, availabilities[i])

\* the predicate of timesInOrder.filter in getValidTimesFromSchedule
keepsTime(host, schedule, eventTimes, durationInMinutes, intervalDate) ==
  LET availabilities ==
        getAvailabilities(host, groupBy(schedule.availabilities), intervalDate,
                          schedule.timezone)
      eventInterval ==
        [start |-> intervalDate, end |-> addMinutes(intervalDate, durationInMinutes)]
  IN /\ \A eventTime \in eventTimes : ~areIntervalsOverlapping(eventTime, eventInterval)
     /\ \E i \in 1..Len(availabilities) :
          /\ isWithinInterval(eventInterval.start, availabilities[i])
          /\ isWithinInterval(eventInterval.end, availabilities[i])

\* a faulty filter: the kept times come out newest first
filterTimesNewestFirst(host, timesInOrder, schedule, eventTimes, durationInMinutes) ==
  LET kept == SelectSeq(timesInOrder,
                LAMBDA t : keepsTime(host, schedule, eventTimes, durationInMinutes, t))
  IN [i \in 1..Len(kept) |-> kept[Len(kept) + 1 - i]]

filterTimes(host, timesInOrder, schedule, eventTimes, durationInMinutes) ==
  SelectSeq(timesInOrder,
            LAMBDA t : keepsTime(host, schedule, eventTimes, durationInMinutes, t))

-----------------------------------------------------------------------------
(* Google Calendar *)

\* events.list: the events that end after timeMin and start before timeMax (both
\* bounds exclusive).  The resolver passes its first and last candidate, so a list
\* of one candidate asks for an empty range; when Google refuses such a request
\* the call fails, which is the outcome ~googleUp
eventsList(cal, timeMin, timeMax) ==
  {e \in cal : e.end > timeMin /\ e.start < timeMax}

\* a faulty source: an unreachable calendar reads as a calendar without events
getCalendarEventTimesOrNone(up, cal, start, end) ==
  [threw |-> FALSE,
   value |-> IF up THEN {[start |-> e.start, end |-> e.end] : e \in eventsList(cal, start, end)}
             ELSE {}]

\* getCalendarEventTimes: the listed events as intervals, or the error thrown
getCalendarEventTimes(up, cal, start, end) ==
  IF ~up
    THEN [threw |-> TRUE, value |-> {}]
    ELSE [threw |-> FALSE,
          value |-> {[start |-> e.start, end |-> e.end] : e \in eventsList(cal, start, end)}]

-----------------------------------------------------------------------------
(* Inputs *)

Guests == 1..NumGuests

BrowseStep == 15

\* the instants "now, rounded up to 15 minutes" takes in the model
BrowseStarts == {-525, 315, 570, 990, 9210, 9255}

\* the Date values a guest submits as startTime
GuestStartTimes == {330, 600, 991}

\* what other people put on an owner's calendar; creator is the createMeeting call
\* that inserted an event, 0 for anyone else
ExternalEvents ==
  { [start |-> 300, end |-> 345, creator |-> 0],
    [start |-> 330, end |-> 360, creator |-> 0],
    [start |-> 600, end |-> 630, creator |-> 0] }

\* meetingSchemaBase: startTime: z.date().min(new Date()), new Date() being the
\* instant the server module was loaded
ServerLoadedAt == -2 * MinutesPerDay

\* date-fns eachMinuteOfInterval({start, end}, {step})
eachMinuteOfInterval(start, end, step) ==
  [i \in 1..(((end - start) \div step) + 1) |-> start + (i - 1) * step]

\* meetingActionSchema.safeParse(...).success
safeParseMeeting(data) ==
  /\ data.eventId \in EventIds
  /\ data.clerkUserId \in Users
  /\ data.timezone \in Zones
  /\ data.startTime >= ServerLoadedAt

-----------------------------------------------------------------------------
(* Calls in progress.  A call is a record: pc names the await it is suspended *)
(* at, or how it ended; the other fields are its local variables.            *)

IdleCall ==
  [pc |-> "idle", clerkUserId |-> "u1", event |-> NoEvent, timesInOrder |-> <<>>,
   schedule |-> NoSchedule, eventTimes |-> {}, validTimes |-> <<>>, error |-> <<>>]

\* a faulty entry: an empty candidate list is not returned at once
enterResolverAlwaysLooksUp(call, userId, event, timesInOrder) ==
  [call EXCEPT !.clerkUserId = userId, !.event = event, !.timesInOrder = timesInOrder,
               !.pc = "getSchedule"]

\* getValidTimesFromSchedule up to its first await
enterResolver(call, userId, event, timesInOrder) ==
  LET c == [call EXCEPT !.clerkUserId = userId, !.event = event,
                        !.timesInOrder = timesInOrder]
  IN IF timesInOrder = <<>>
       THEN [c EXCEPT !.pc = "resolved", !.validTimes = <<>>]
       ELSE [c EXCEPT !.pc = "getSchedule"]

\* getValidTimesFromSchedule from the answer of getSchedule to the next await
afterGetSchedule(call, schedule) ==
  IF schedule = NoSchedule
    THEN [call EXCEPT !.pc = "resolved", !.validTimes = <<>>]
    ELSE [call EXCEPT !.pc = "getCalendarEventTimes", !.schedule = schedule]

\* getValidTimesFromSchedule from the answer of getCalendarEventTimes to its return
afterGetCalendarEventTimes(call, host, answer) ==
  IF answer.threw
    THEN [call EXCEPT !.pc = "threw", !.error = <<"Failed to fetch calendar events">>]
    ELSE [call EXCEPT !.pc = "resolved",
                      !.eventTimes = answer.value,
                      !.validTimes = filterTimes(host, call.timesInOrder, call.schedule,
                                                 answer.value,
                                                 call.event.durationInMinutes)]

\* the answer getCalendarEventTimes gives a suspended call now
calendarAnswer(call) ==
  getCalendarEventTimes(googleUp, calendar[call.clerkUserId],
                        call.timesInOrder[1], call.timesInOrder[Len(call.timesInOrder)])

-----------------------------------------------------------------------------
(* The environment *)

\* someone else adds an event to the Google calendar of an owner who has a schedule
\* (the calendar of an owner without one is never read or written)
CalendarInsertExternal ==
  \E u \in Users, e \in ExternalEvents :
    /\ getSchedule(u) # NoSchedule
    /\ e \notin calendar[u]
    /\ Cardinality({x \in calendar[u] : x.creator = 0}) < MaxExternal
    /\ calendar' = [calendar EXCEPT ![u] = @ \cup {e}]
    /\ UNCHANGED <<clock, resolving, saving, hostTz, ScheduleTable, ScheduleAvailabilityTable, googleUp, page, meeting>>

\* Google (or the token it needs) becomes unreachable, or reachable again
GoogleOutage ==
  /\ googleUp' = ~googleUp
  /\ UNCHANGED <<clock, resolving, saving, hostTz, ScheduleTable, ScheduleAvailabilityTable, calendar, page, meeting>>

\* the instants the clock is read at after the server module was loaded:
\* Monday 2026-03-02 00:00Z and 12:00Z
ClockTimes == {0, 12 * MinutesPerHour}

\* time passes
Tick ==
  /\ \E t \in ClockTimes : t > clock /\ clock' = t
  /\ UNCHANGED <<hostTz, ScheduleTable, ScheduleAvailabilityTable, calendar, googleUp,
                 page, meeting, resolving, saving>>

-----------------------------------------------------------------------------
(* BookingPage *)

\* getEvent: the owner's event with that id, active or not
getEvent(userId, eventId) ==
  IF \E e \in EventTable : e.clerkUserId = userId /\ e.id = eventId
    THEN CHOOSE e \in EventTable : e.clerkUserId = userId /\ e.id = eventId
    ELSE NoEvent

BookingPage ==
  \E userId \in Users, eventId \in EventIds, startDate \in BrowseStarts,
     n \in 1..MaxCandidates :
    LET event == getEvent(userId, eventId)
        endDate == startDate + (n - 1) * BrowseStep
    IN /\ page.pc = "idle"
       /\ page' = IF event = NoEvent
                    THEN [page EXCEPT !.pc = "notFound"]
                    ELSE enterResolver(page, userId, event,
                           eachMinuteOfInterval(startDate, endDate, BrowseStep))
       /\ UNCHANGED <<clock, resolving, saving, hostTz, ScheduleTable, ScheduleAvailabilityTable, calendar,
                      googleUp, meeting>>

BookingPageGetSchedule ==
  /\ page.pc = "getSchedule"
  /\ page' = afterGetSchedule(page, getSchedule(page.clerkUserId))
  /\ UNCHANGED <<clock, resolving, saving, hostTz, ScheduleTable, ScheduleAvailabilityTable, calendar, googleUp,
                 meeting>>

BookingPageGetCalendarEventTimes ==
  /\ page.pc = "getCalendarEventTimes"
  /\ page' = afterGetCalendarEventTimes(page, hostTz, calendarAnswer(page))
  /\ UNCHANGED <<clock, resolving, saving, hostTz, ScheduleTable, ScheduleAvailabilityTable, calendar, googleUp,
                 meeting>>

-----------------------------------------------------------------------------
(* getValidTimesFromSchedule called as a server action of its own: the file is *)
(* marked 'use server', so each exported function is an endpoint a client can *)
(* call with arguments of its choice                                          *)

\* the candidate lists such a call passes
DirectTimes ==
  { <<>>,
    <<540, 990, 991, 1005>>,    \* Monday 09:00, 16:30, 16:31, 16:45 UTC
    <<570, 600, 630>> }         \* Monday 09:30, 10:00, 10:30 UTC

\* the durations it passes: an event's duration is a positive number of minutes
DirectDurations == {15, 30}

getValidTimesFromSchedule ==
  \E timesInOrder \in DirectTimes, userId \in Users, d \in DirectDurations :
    /\ resolving.pc = "idle"
    /\ resolving' = enterResolver(resolving, userId,
                                  [clerkUserId |-> userId, durationInMinutes |-> d],
                                  timesInOrder)
    /\ UNCHANGED <<clock, saving, hostTz, ScheduleTable, ScheduleAvailabilityTable, calendar,
                   googleUp, page, meeting>>

getValidTimesFromScheduleGetSchedule ==
  /\ resolving.pc = "getSchedule"
  /\ resolving' = afterGetSchedule(resolving, getSchedule(resolving.clerkUserId))
  /\ UNCHANGED <<clock, saving, hostTz, ScheduleTable, ScheduleAvailabilityTable, calendar,
                 googleUp, page, meeting>>

getValidTimesFromScheduleGetCalendarEventTimes ==
  /\ resolving.pc = "getCalendarEventTimes"
  /\ resolving' = afterGetCalendarEventTimes(resolving, hostTz, calendarAnswer(resolving))
  /\ UNCHANGED <<clock, saving, hostTz, ScheduleTable, ScheduleAvailabilityTable, calendar,
                 googleUp, page, meeting>>

-----------------------------------------------------------------------------
(* createMeeting *)

\* a faulty lookup: isActive is not part of the condition
findOwnedEvent(userId, eventId) ==
  IF \E e \in EventTable : e.clerkUserId = userId /\ e.id = eventId
    THEN CHOOSE e \in EventTable : e.clerkUserId = userId /\ e.id = eventId
    ELSE NoEvent

\* EventTable.findFirst: active, of that owner, with that id
findActiveEvent(userId, eventId) ==
  IF \E e \in EventTable : e.isActive /\ e.clerkUserId = userId /\ e.id = eventId
    THEN CHOOSE e \in EventTable : e.isActive /\ e.clerkUserId = userId /\ e.id = eventId
    ELSE NoEvent

\* the catch block of createMeeting
meetingThrew(call, message) ==
  [IdleCall EXCEPT !.pc = "threw", !.error = <<"Failed to create meeting">> \o message]

\* createMeeting from the return of getValidTimesFromSchedule to the next await
afterResolver(call) ==
  IF call.pc = "threw" THEN meetingThrew(call, call.error)
  ELSE IF call.pc = "resolved"
    THEN IF Len(call.validTimes) = 0
           THEN meetingThrew(call, <<"Selected time is not valid.">>)
           ELSE [call EXCEPT !.pc = "createCalendarEvent"]
  ELSE call

\* a createMeeting request arrives; calls are numbered in their order of arrival
createMeetingStart(g) ==
  \E data \in [eventId : EventIds, clerkUserId : Users,
               startTime : GuestStartTimes \cup {ServerLoadedAt - 1}, timezone : Zones] :
    LET event == findActiveEvent(data.clerkUserId, data.eventId)
        startInTimezone == fromZonedTime(hostTz, data.startTime, data.timezone)
    IN /\ meeting[g].pc = "idle"
       /\ \A h \in Guests : h < g => meeting[h].pc # "idle"
       /\ meeting' =
            [meeting EXCEPT ![g] =
               IF ~safeParseMeeting(data) THEN meetingThrew(@, <<"Invalid data.">>)
               ELSE IF event = NoEvent THEN meetingThrew(@, <<"Event not found.">>)
               ELSE afterResolver(enterResolver(@, event.clerkUserId, event,
                                                <<startInTimezone>>))]
       /\ UNCHANGED <<clock, resolving, saving, hostTz, ScheduleTable, ScheduleAvailabilityTable, calendar,
                      googleUp, page>>

\* MeetingForm: the visitor of the rendered page, in a browser whose zone is
\* browserTz, selects a time zone and one of the times listed, and submits
MeetingFormSubmit(g) ==
  \E browserTz \in Zones, timezone \in Zones, i \in 1..Len(page.validTimes) :
    LET startTime == toZonedTime(browserTz, page.validTimes[i], timezone)
        data == [eventId |-> page.event.id, clerkUserId |-> page.clerkUserId,
                 startTime |-> startTime, timezone |-> timezone]
        event == findActiveEvent(data.clerkUserId, data.eventId)
        startInTimezone == fromZonedTime(hostTz, data.startTime, data.timezone)
    IN /\ page.pc = "resolved"
       /\ meeting[g].pc = "idle"
       /\ meeting' =
            [meeting EXCEPT ![g] =
               IF ~safeParseMeeting(data) THEN meetingThrew(@, <<"Invalid data.">>)
               ELSE IF event = NoEvent THEN meetingThrew(@, <<"Event not found.">>)
               ELSE afterResolver(enterResolver(@, event.clerkUserId, event,
                                                <<startInTimezone>>))]
       /\ UNCHANGED <<clock, resolving, saving, hostTz, ScheduleTable, ScheduleAvailabilityTable, calendar,
                      googleUp, page>>

createMeetingGetSchedule(g) ==
  /\ meeting[g].pc = "getSchedule"
  /\ meeting' = [meeting EXCEPT ![g] =
                   afterResolver(afterGetSchedule(@, getSchedule(@.clerkUserId)))]
  /\ UNCHANGED <<clock, resolving, saving, hostTz, ScheduleTable, ScheduleAvailabilityTable, calendar, googleUp,
                 page>>

createMeetingGetCalendarEventTimes(g) ==
  /\ meeting[g].pc = "getCalendarEventTimes"
  /\ meeting' = [meeting EXCEPT ![g] =
                   afterResolver(afterGetCalendarEventTimes(@, hostTz, calendarAnswer(@)))]
  /\ UNCHANGED <<clock, resolving, saving, hostTz, ScheduleTable, ScheduleAvailabilityTable, calendar, googleUp,
                 page>>

\* a faulty insert: the event lasts one candidate step, whatever the event record
bookedEventOneStep(g, call) ==
  [start |-> call.timesInOrder[1],
   end |-> addMinutes(call.timesInOrder[1], BrowseStep),
   creator |-> g]

\* createCalendarEvent: the event inserted for a call, from its start time and the
\* duration of the event record
bookedEvent(g, call) ==
  [start |-> call.timesInOrder[1],
   end |-> addMinutes(call.timesInOrder[1], call.event.durationInMinutes),
   creator |-> g]

\* a faulty commit: the insert is refused when the calendar holds an event over
\* the same interval
createMeetingUnlessTaken(g) ==
  LET taken == \E e \in calendar[meeting[g].clerkUserId] :
                 /\ e.start = bookedEvent(g, meeting[g]).start
                 /\ e.end = bookedEvent(g, meeting[g]).end
  IN /\ meeting[g].pc = "createCalendarEvent"
     /\ IF googleUp /\ ~taken
          THEN /\ calendar' = [calendar EXCEPT ![meeting[g].clerkUserId] =
                                 @ \cup {bookedEvent(g, meeting[g])}]
               /\ meeting' = [meeting EXCEPT ![g].pc = "returned"]
          ELSE /\ calendar' = calendar
               /\ meeting' = [meeting EXCEPT ![g] =
                                meetingThrew(@, <<"Failed to create calendar event">>)]
     /\ UNCHANGED <<clock, resolving, saving, hostTz, ScheduleTable, ScheduleAvailabilityTable, googleUp, page>>

\* a faulty commit: a failed insert is logged and the call returns all the same
createMeetingIgnoringInsertFailure(g) ==
  /\ meeting[g].pc = "createCalendarEvent"
  /\ calendar' = IF googleUp
                   THEN [calendar EXCEPT ![meeting[g].clerkUserId] =
                           @ \cup {bookedEvent(g, meeting[g])}]
                   ELSE calendar
  /\ meeting' = [meeting EXCEPT ![g].pc = "returned"]
  /\ UNCHANGED <<clock, resolving, saving, hostTz, ScheduleTable, ScheduleAvailabilityTable, googleUp, page>>

createMeetingCreateCalendarEvent(g) ==
  /\ meeting[g].pc = "createCalendarEvent"
  /\ IF googleUp
       THEN /\ calendar' = [calendar EXCEPT ![meeting[g].clerkUserId] =
                              @ \cup {bookedEvent(g, meeting[g])}]
            /\ meeting' = [meeting EXCEPT ![g].pc = "returned"]
       ELSE /\ calendar' = calendar
            /\ meeting' = [meeting EXCEPT ![g] =
                             meetingThrew(@, <<"Failed to create calendar event">>)]
  /\ UNCHANGED <<clock, resolving, saving, hostTz, ScheduleTable, ScheduleAvailabilityTable, googleUp, page>>

-----------------------------------------------------------------------------
(* saveSchedule *)

Savers == 1..NumSavers

\* auth() of a request without a session yields no user id
NoUser == ""

\* the availabilities a schedule form is filled with
SavePool ==
  { Rule("monday", 9, 0, 11, 0),
    Rule("monday", 10, 0, 12, 0),
    Rule("monday", 11, 0, 12, 0),
    Rule("monday", 12, 0, 10, 0),
    Rule("monday", 13, 0, 13, 0),
    Rule("tuesday", 10, 0, 12, 0) }

\* the time zones selected in it
SaveZones == {"Asia/Tokyo", "America/New_York"}

\* the arguments of a saveSchedule call
SaveInputs == [timezone : SaveZones, availabilities : SeqsUpTo(SavePool, MaxRules)]

\* the rows inserted for a list of availabilities by one insert statement; the
\* id column (uuid, defaultRandom) is modelled by the writer and the position
availabilityRowsOf(writer, scheduleId, availabilities) ==
  [i \in 1..Len(availabilities) |->
     [id |-> <<writer, i>>,
      scheduleId |-> scheduleId,
      dayOfWeek |-> availabilities[i].dayOfWeek,
      startTime |-> availabilities[i].startTime,
      endTime |-> availabilities[i].endTime]]

\* the rows of a schedule that was stored before any call of the model
availabilityRows(scheduleId, availabilities) ==
  availabilityRowsOf(0, scheduleId, availabilities)

\* a saveSchedule call: pc, the session's user, its argument, the issues safeParse
\* found in it, the id the upsert returned, the rows the batch's delete statement
\* found and whether it holds their locks, the error thrown
IdleSave ==
  [pc |-> "idle", userId |-> NoUser, data |-> [timezone |-> "", availabilities |-> <<>>],
   issues |-> {}, scheduleId |-> "", deleted |-> {}, locks |-> FALSE, error |-> <<>>]

\* the catch block of saveSchedule
saveThrew(call, message) ==
  [call EXCEPT !.pc = "threw", !.error = <<"Failed to save schedule">> \o message]

\* saveSchedule up to its first write: auth(), safeParse and the check of both;
\* calls are numbered in their order of arrival
saveSchedule(s) ==
  \E userId \in {"u1", NoUser}, unsafeData \in SaveInputs :
    LET call == [IdleSave EXCEPT !.userId = userId, !.data = unsafeData,
                                 !.issues = superRefine(unsafeData.availabilities)]
    IN /\ saving[s].pc = "idle"
       /\ \A r \in Savers : r < s => saving[r].pc # "idle"
       /\ saving' = [saving EXCEPT ![s] =
                       IF ~safeParseSchedule(unsafeData) \/ userId = NoUser
                         THEN saveThrew(call,
                                <<"Invalid schedule data or user not authenticated.">>)
                         ELSE [call EXCEPT !.pc = "upsert"]]
       /\ UNCHANGED <<clock, resolving, hostTz, ScheduleTable, ScheduleAvailabilityTable,
                      calendar, googleUp, page, meeting>>

\* insert(ScheduleTable).values(...).onConflictDoUpdate(...).returning(id): the
\* owner's row is created, or its timezone set; a schedule's id is modelled by the
\* owner's id.  The statement may fail, and then nothing is written
saveScheduleUpsert(s) ==
  \E ok \in BOOLEAN :
    LET call == saving[s]
        others == {r \in ScheduleTable : r.clerkUserId # call.userId}
        row == [id |-> call.userId, clerkUserId |-> call.userId,
                timezone |-> call.data.timezone]
    IN /\ call.pc = "upsert"
       /\ IF ok
            THEN /\ ScheduleTable' = others \cup {row}
                 /\ saving' = [saving EXCEPT ![s].pc = "batch", ![s].scheduleId = row.id]
            ELSE /\ ScheduleTable' = ScheduleTable
                 /\ saving' = [saving EXCEPT ![s] = saveThrew(@, <<"database">>)]
       /\ UNCHANGED <<clock, resolving, hostTz, ScheduleAvailabilityTable, calendar, googleUp,
                      page, meeting>>

\* db.batch(statements), first statement: a transaction begins (at the database's
\* default isolation level, READ COMMITTED) and its delete statement finds the
\* committed availabilities of the schedule.  Rows another open batch has deleted
\* are locked by it: this batch then waits for that one to end.  Nothing the
\* batch writes is seen by others before it commits.  A failed statement rolls
\* the batch back
saveScheduleBatch(s) ==
  \E ok \in BOOLEAN :
    LET call == saving[s]
        found == {a.id : a \in {x \in Range(ScheduleAvailabilityTable) :
                                  x.scheduleId = call.scheduleId}}
        holders == {r \in Savers : /\ saving[r].pc = "insert"
                                   /\ saving[r].locks
                                   /\ saving[r].deleted \cap found # {}}
    IN /\ call.pc = "batch"
       /\ saving' = [saving EXCEPT ![s] =
                       IF ok
                         THEN [@ EXCEPT !.pc = "insert", !.deleted = found,
                                        !.locks = (holders = {})]
                         ELSE saveThrew(@, <<"database">>)]
       /\ UNCHANGED <<clock, resolving, hostTz, ScheduleTable, ScheduleAvailabilityTable,
                      calendar, googleUp, page, meeting>>

\* db.batch(statements), the insert statement and the commit: once the batch it
\* waited for has ended, the rows its delete statement found are deleted if they
\* are still there, and the availabilities of the call are inserted
saveScheduleBatchCommit(s) ==
  \E ok \in BOOLEAN :
    LET call == saving[s]
        holders == {r \in Savers \ {s} : /\ saving[r].pc = "insert"
                                         /\ saving[r].locks
                                         /\ saving[r].deleted \cap call.deleted # {}}
        kept == SelectSeq(ScheduleAvailabilityTable, LAMBDA a : a.id \notin call.deleted)
    IN /\ call.pc = "insert"
       /\ call.locks \/ holders = {}
       /\ IF ok
            THEN /\ ScheduleAvailabilityTable' =
                      kept \o availabilityRowsOf(s, call.scheduleId, call.data.availabilities)
                 /\ saving' = [saving EXCEPT ![s].pc = "returned"]
            ELSE /\ ScheduleAvailabilityTable' = ScheduleAvailabilityTable
                 /\ saving' = [saving EXCEPT ![s] = saveThrew(@, <<"database">>)]
       /\ UNCHANGED <<clock, resolving, hostTz, ScheduleTable, calendar, googleUp, page, meeting>>

-----------------------------------------------------------------------------
(* Specifications *)

\* the availability lists saveSchedule stores: those the schema accepts
StorableAvailabilities ==
  {a \in SeqsUpTo(RulePool, MaxRules) :
     safeParseSchedule([timezone |-> "UTC", availabilities |-> a])}

\* the owner u1 has saved a schedule, or none; nothing is booked yet
InitWith(hosts, zones, lists) ==
  /\ hostTz \in hosts
  /\ \/ /\ ScheduleTable = {}
        /\ ScheduleAvailabilityTable = <<>>
     \/ \E tz \in zones, a \in lists :
          /\ ScheduleTable = {[id |-> "u1", clerkUserId |-> "u1", timezone |-> tz]}
          /\ ScheduleAvailabilityTable = availabilityRows("u1", a)
  /\ calendar = [u \in Users |-> {}]
  /\ googleUp = TRUE
  /\ page = IdleCall
  /\ meeting = [g \in Guests |-> IdleCall]
  /\ resolving = IdleCall
  /\ saving = [s \in Savers |-> IdleSave]
  /\ clock = ServerLoadedAt

Init == InitWith(Zones, Zones, StorableAvailabilities)

Environment == CalendarInsertExternal \/ GoogleOutage

Browse == BookingPage \/ BookingPageGetSchedule \/ BookingPageGetCalendarEventTimes

Commit ==
  \E g \in Guests :
    \/ createMeetingStart(g)
    \/ createMeetingGetSchedule(g)
    \/ createMeetingGetCalendarEventTimes(g)
    \/ createMeetingCreateCalendarEvent(g)

\* page renders against a calendar other people write to
NextBrowse == Environment \/ Browse

SpecBrowse == Init /\ [][NextBrowse]_vars

\* createMeeting requests, for an owner in one of two zones
BookingZones == {"UTC", "America/New_York"}

BookingLists == {<<Rule("monday", 0, 0, 2, 0), Rule("monday", 9, 0, 17, 0)>>}

InitBooking == InitWith(BookingZones, BookingZones, BookingLists)

Next == Environment \/ Commit

Spec == InitBooking /\ [][Next]_vars

\* a page render, and the booking its visitor (call 1) submits from it
NextFlow ==
  \/ Environment
  \/ Browse
  \/ MeetingFormSubmit(1)
  \/ createMeetingGetSchedule(1)
  \/ createMeetingGetCalendarEventTimes(1)
  \/ createMeetingCreateCalendarEvent(1)

SpecFlow == InitBooking /\ [][NextFlow]_vars

\* direct calls of the resolver, for an owner with no schedule, no rule or some
ResolverZones == {"UTC", "America/New_York"}

ResolverLists ==
  { <<>>,
    <<Rule("monday", 9, 0, 17, 0)>>,
    <<Rule("monday", 10, 0, 12, 0)>>,
    <<Rule("monday", 0, 0, 2, 0), Rule("monday", 9, 0, 17, 0)>> }

InitResolver == InitWith(Zones, ResolverZones, ResolverLists)

Resolve ==
  \/ getValidTimesFromSchedule
  \/ getValidTimesFromScheduleGetSchedule
  \/ getValidTimesFromScheduleGetCalendarEventTimes

NextResolver == Environment \/ Resolve

SpecResolver == InitResolver /\ [][NextResolver]_vars

\* saveSchedule calls of owner u1, who has a schedule in UTC or none yet
SavedAtFirst == [timezone |-> "UTC", availabilities |-> <<Rule("monday", 9, 0, 17, 0)>>]

InitSave == InitWith({"UTC"}, {SavedAtFirst.timezone}, {SavedAtFirst.availabilities})

Save ==
  \E s \in Savers :
    \/ saveSchedule(s)
    \/ saveScheduleUpsert(s)
    \/ saveScheduleBatch(s)
    \/ saveScheduleBatchCommit(s)

SpecSave == InitSave /\ [][Save]_vars

\* one saveSchedule call (call 1) while the resolver reads the schedule
NextSaveRead ==
  \/ saveSchedule(1)
  \/ saveScheduleUpsert(1)
  \/ saveScheduleBatch(1)
  \/ saveScheduleBatchCommit(1)
  \/ Resolve

SpecSaveRead == InitSave /\ [][NextSaveRead]_vars

\* createMeeting requests (call 1) at any time after the server module was loaded
NextClock ==
  \/ Tick
  \/ createMeetingStart(1)
  \/ createMeetingGetSchedule(1)
  \/ createMeetingGetCalendarEventTimes(1)
  \/ createMeetingCreateCalendarEvent(1)

SpecClock == InitBooking /\ [][NextClock]_vars

-----------------------------------------------------------------------------
(* What the claims speak about *)

Calls == {page} \cup {meeting[g] : g \in Guests}

\* the call has run the filter of getValidTimesFromSchedule: it got a schedule and
\* an answer from the calendar
hasFiltered(call) ==
  /\ call.schedule # NoSchedule
  /\ call.pc \in {"resolved", "createCalendarEvent", "returned", "threw"}
  /\ call.error # <<"Failed to fetch calendar events">>
  /\ call.error # <<"Failed to create meeting", "Failed to fetch calendar events">>

RECURSIVE isSubsequence(_, _)
isSubsequence(a, b) ==
  IF a = <<>> THEN TRUE
  ELSE IF b = <<>> THEN FALSE
  ELSE IF Head(a) = Head(b) THEN isSubsequence(Tail(a), Tail(b))
  ELSE isSubsequence(a, Tail(b))

\* the instant of wall-clock time w of zone tz, by the zone's own offsets alone
wallToInstant(tz, w) == w - fixOffset(w, ZoneOffset(tz, w), tz)

\* the window of a rule on the calendar date instant t has in zone tz
windowOn(tz, rule, t) ==
  LET midnight == (WallClock(tz, t) \div MinutesPerDay) * MinutesPerDay
  IN [start |-> wallToInstant(tz, midnight + rule.startTime[1] * 60 + rule.startTime[2]),
      end |-> wallToInstant(tz, midnight + rule.endTime[1] * 60 + rule.endTime[2])]

\* some rule of t's day of the week in the schedule's zone contains [t, t + duration]
withinSomeRule(schedule, durationInMinutes, t) ==
  \E i \in 1..Len(schedule.availabilities) :
    LET rule == schedule.availabilities[i]
        window == windowOn(schedule.timezone, rule, t)
    IN /\ rule.dayOfWeek = DayOfWall(WallClock(schedule.timezone, t))
       /\ t >= window.start
       /\ t + durationInMinutes <= window.end

\* busy interval b overlaps the meeting [t, t + duration)
busyOverlaps(b, durationInMinutes, t) ==
  b.start < t + durationInMinutes /\ b.end > t

\* C1: the list the resolver returns is an order-preserving subsequence of its
\* candidate list: only instants of the input, in the input's order, none twice
C1_Subsequence ==
  \A call \in Calls : isSubsequence(call.validTimes, call.timesInOrder)

C1_Witness ==
  /\ hasFiltered(page)
  /\ Len(page.validTimes) >= 2
  /\ Len(page.validTimes) < Len(page.timesInOrder)

\* C2: every returned instant lies, with its whole meeting, in the window of a rule
\* of its day of the week, day and window taken in the schedule's time zone
C2_Containment ==
  \A call \in Calls :
    hasFiltered(call) =>
      \A t \in Range(call.validTimes) :
        withinSomeRule(call.schedule, call.event.durationInMinutes, t)

\* C3: no returned instant's meeting overlaps a busy interval the calendar source
\* returned to that call
C3_NoOverlap ==
  \A call \in Calls :
    hasFiltered(call) =>
      \A t \in Range(call.validTimes), b \in call.eventTimes :
        ~busyOverlaps(b, call.event.durationInMinutes, t)

C3_Witness ==
  /\ hasFiltered(page)
  /\ page.validTimes # <<>>
  /\ \E t \in Range(page.timesInOrder), b \in page.eventTimes :
       /\ busyOverlaps(b, page.event.durationInMinutes, t)
       /\ withinSomeRule(page.schedule, page.event.durationInMinutes, t)

\* C4: every candidate that lies within a rule of its day (in the schedule's zone)
\* and overlaps no busy interval is returned, whatever the host's zone
C4_Exact ==
  \A call \in Calls :
    hasFiltered(call) =>
      \A t \in Range(call.timesInOrder) :
        ( /\ withinSomeRule(call.schedule, call.event.durationInMinutes, t)
          /\ \A b \in call.eventTimes :
               ~busyOverlaps(b, call.event.durationInMinutes, t) )
        => t \in Range(call.validTimes)

\* Monday 2026-03-02 00:30 in New York
MondayHalfPastMidnightNewYork == 5 * MinutesPerHour + 30

\* C5: the rules a candidate is matched against are those of its day of the week
\* in the schedule's zone; with the rule Monday 00:00-02:00 in America/New_York the
\* candidate Monday 00:30 New York time is kept
C5_OwnerDayOfWeek ==
  \A call \in Calls :
    hasFiltered(call) =>
      /\ \A t \in Range(call.timesInOrder) :
           LET grouped == groupBy(call.schedule.availabilities)
               used == dayOfWeekOf(hostTz, t)
               owners == DayOfWall(WallClock(call.schedule.timezone, t))
           IN (IF used \in DOMAIN grouped THEN grouped[used] ELSE <<>>)
                = (IF owners \in DOMAIN grouped THEN grouped[owners] ELSE <<>>)
      /\ ( /\ call.schedule.timezone = "America/New_York"
           /\ Rule("monday", 0, 0, 2, 0) \in Range(call.schedule.availabilities)
           /\ MondayHalfPastMidnightNewYork \in Range(call.timesInOrder)
           /\ call.eventTimes = {} )
         => MondayHalfPastMidnightNewYork \in Range(call.validTimes)

\* a step in which a suspended call gets the calendar's answer and filters
filters(before, after) ==
  /\ before.pc = "getCalendarEventTimes"
  /\ after.pc # "getCalendarEventTimes"
  /\ hasFiltered(after)

\* a resolver call, before and after a step
CallSteps(now, next) ==
  {<<now[1], next[1]>>} \cup {<<now[2][g], next[2][g]>> : g \in Guests}

\* C8: the range asked of the calendar (first to last candidate) is enough: no
\* returned instant's meeting overlaps an event that is in the owner's calendar
\* when the resolver asks, also when the list has a single candidate
C8_RangeSufficient ==
  [][ \A step \in CallSteps(<<page, meeting>>, <<page', meeting'>>) :
        filters(step[1], step[2]) =>
          \A t \in Range(step[2].validTimes), e \in calendar[step[1].clerkUserId] :
            ~busyOverlaps(e, step[1].event.durationInMinutes, t) ]_vars

\* the events of all calendars that createMeeting call g inserted
insertedBy(g) == {e \in UNION {calendar[u] : u \in Users} : e.creator = g}

NotValid == <<"Failed to create meeting", "Selected time is not valid.">>
FetchFailed == <<"Failed to create meeting", "Failed to fetch calendar events">>
WriteFailed == <<"Failed to create meeting", "Failed to create calendar event">>

\* call g gets the calendar's answer in this step
recheck(g) ==
  /\ meeting[g].pc = "getCalendarEventTimes"
  /\ meeting'[g].pc # "getCalendarEventTimes"

\* the instant call g re-checks, and the end of its meeting
chosen(g) == meeting[g].timesInOrder[1]
chosenEnd(g) == chosen(g) + meeting[g].event.durationInMinutes

\* C6: a page render returned an instant; a busy interval covering its slot is
\* then added to the calendar; createMeeting for that instant finds the re-check
\* empty, fails with "Selected time is not valid." and inserts nothing
C6_RecheckRejects ==
  [][ \A g \in Guests :
        ( /\ recheck(g)
          /\ googleUp
          /\ page.pc = "resolved"
          /\ page.event = meeting[g].event
          /\ \E i \in 1..(Len(page.validTimes)) :
               /\ page.validTimes[i] = chosen(g)
               /\ chosen(g) # page.timesInOrder[Len(page.timesInOrder)]
          /\ \E e \in calendar[meeting[g].clerkUserId] :
               e.start <= chosen(g) /\ e.end >= chosenEnd(g) )
        => /\ meeting'[g].pc = "threw"
           /\ meeting'[g].error = NotValid
           /\ calendar' = calendar ]_vars

\* C7: a createMeeting whose re-check runs after another call's booking of the
\* same slot has been inserted is rejected
C7_SecondWriterLoses ==
  [][ \A g \in Guests :
        ( /\ recheck(g)
          /\ \E e \in calendar[meeting[g].clerkUserId] :
               /\ e.creator \in Guests \ {g}
               /\ e.start = chosen(g)
               /\ e.end = chosenEnd(g) )
        => meeting'[g].pc = "threw" ]_vars

\* C9: when the calendar source fails, the resolver call fails instead of
\* returning slots, and a createMeeting in that call ends in error and inserts nothing
C9_SourceFailurePropagates ==
  [][ \A g \in Guests :
        (recheck(g) /\ ~googleUp)
        => /\ meeting'[g].pc = "threw"
           /\ meeting'[g].error = FetchFailed
           /\ meeting'[g].validTimes = <<>>
           /\ calendar' = calendar ]_vars

C9_Witness ==
  \E g \in Guests : meeting[g].pc = "threw" /\ meeting[g].error = FetchFailed

\* C10: createMeeting returns only with its calendar event inserted, and a call
\* that has not returned (it failed, or is still running) has inserted nothing
C10_NoPartialSuccess ==
  \A g \in Guests :
    IF meeting[g].pc = "returned"
      THEN insertedBy(g) = {bookedEvent(g, meeting[g])}
      ELSE insertedBy(g) = {}

C10_Witness ==
  /\ \E g \in Guests : meeting[g].pc = "threw" /\ meeting[g].error = WriteFailed
  /\ \E g \in Guests : meeting[g].pc = "returned"

-----------------------------------------------------------------------------
(* The resolver called directly *)

\* the windows getAvailabilities gives the call for candidate t contain its meeting
availableAt(call, t) ==
  LET availabilities ==
        getAvailabilities(hostTz, groupBy(call.schedule.availabilities), t,
                          call.schedule.timezone)
  IN \E i \in 1..Len(availabilities) :
       /\ t >= availabilities[i].start
       /\ t + call.event.durationInMinutes <= availabilities[i].end

\* C11: with an empty candidate list the resolver returns the empty list at once,
\* without looking up the schedule; with a schedule that has no rules it returns
\* the empty list for any candidates, busy intervals and duration
C11_EmptyInEmptyOut ==
  /\ (resolving.pc # "idle" /\ resolving.timesInOrder = <<>>)
       => /\ resolving.pc = "resolved"
          /\ resolving.validTimes = <<>>
          /\ resolving.schedule = NoSchedule
  /\ (hasFiltered(resolving) /\ resolving.schedule.availabilities = <<>>)
       => resolving.validTimes = <<>>

C11_Witness ==
  /\ hasFiltered(resolving)
  /\ resolving.schedule.availabilities = <<>>
  /\ resolving.timesInOrder # <<>>
  /\ resolving.eventTimes # {}

\* C12: for a non-empty candidate list and an owner without a schedule, or with a
\* schedule without rules, the resolver ends by returning the empty list and never
\* by throwing, whether or not the calendar source answers
C12_NeverThrows ==
  ( /\ resolving.pc \in {"resolved", "threw"}
    /\ resolving.timesInOrder # <<>>
    /\ \/ resolving.schedule = NoSchedule
       \/ resolving.schedule.availabilities = <<>> )
  => /\ resolving.pc = "resolved"
     /\ resolving.validTimes = <<>>

\* C13: with candidates, rules, time zone and busy intervals fixed, the output for
\* a longer duration is a subset of the output for a shorter one
C13_MonotonicDuration ==
  hasFiltered(resolving) =>
    \A d \in DirectDurations :
      LET other == Range(filterTimes(hostTz, resolving.timesInOrder, resolving.schedule,
                                     resolving.eventTimes, d))
          mine == Range(resolving.validTimes)
      IN /\ d <= resolving.event.durationInMinutes => mine \subseteq other
         /\ d >= resolving.event.durationInMinutes => other \subseteq mine

C13_Witness ==
  /\ hasFiltered(resolving)
  /\ resolving.validTimes # <<>>
  /\ \E d \in DirectDurations :
       /\ d < resolving.event.durationInMinutes
       /\ Range(filterTimes(hostTz, resolving.timesInOrder, resolving.schedule,
                            resolving.eventTimes, d))
            # Range(resolving.validTimes)

\* Scenario A: the single rule Monday 09:00-17:00 in UTC, no busy intervals,
\* duration 30, and the candidates 09:00, 16:30, 16:31, 16:45 of Monday 2026-03-02
ScenarioA(call) ==
  /\ hasFiltered(call)
  /\ call.schedule = [timezone |-> "UTC", availabilities |-> <<Rule("monday", 9, 0, 17, 0)>>]
  /\ call.eventTimes = {}
  /\ call.event.durationInMinutes = 30
  /\ call.timesInOrder = <<540, 990, 991, 1005>>

C15_TouchingIsNoConflict ==
  hasFiltered(resolving) =>
    /\ \A t \in Range(resolving.timesInOrder) :
         ( /\ availableAt(resolving, t)
           /\ \A b \in resolving.eventTimes :
                ~busyOverlaps(b, resolving.event.durationInMinutes, t) )
         => t \in Range(resolving.validTimes)
    /\ ( /\ resolving.schedule.availabilities = <<Rule("monday", 9, 0, 17, 0)>>
         /\ resolving.schedule.timezone = "UTC"
         /\ resolving.eventTimes = {[start |-> 600, end |-> 630]}
         /\ resolving.event.durationInMinutes = 30
         /\ resolving.timesInOrder = <<570, 600, 630>> )
       => /\ availableAt(resolving, 570) => 570 \in Range(resolving.validTimes)
          /\ 600 \notin Range(resolving.validTimes)

\* a kept candidate whose meeting ends where a busy interval starts, and another
\* that starts where the busy interval ends
C15_Witness ==
  /\ hasFiltered(resolving)
  /\ \E t \in Range(resolving.validTimes), b \in resolving.eventTimes :
       t + resolving.event.durationInMinutes = b.start
  /\ \E t \in Range(resolving.validTimes), b \in resolving.eventTimes :
       t = b.end

-----------------------------------------------------------------------------
(* Schedule validation and storage *)

OverlapIssue(i) == <<i, "startTime", "Availability overlaps with another">>
OrderIssue(i) == <<i, "endTime", "End time must be after start time">>

\* "HH:MM" as the minute of the day
minuteOfDay(time) == time[1] * MinutesPerHour + time[2]

\* rules a and b are on the same day and their time ranges overlap
rulesOverlap(a, b) ==
  /\ a.dayOfWeek = b.dayOfWeek
  /\ minuteOfDay(a.startTime) < minuteOfDay(b.endTime)
  /\ minuteOfDay(a.endTime) > minuteOfDay(b.startTime)

\* the saveSchedule calls that have validated their argument
Validated == {s \in Savers : saving[s].pc # "idle"}

\* Scenario C: Monday 09:00-11:00 at index 0 and Monday 10:00-12:00 at index 1
ScenarioC == <<Rule("monday", 9, 0, 11, 0), Rule("monday", 10, 0, 12, 0)>>

\* C16: for two overlapping rules of the same day the validation produces exactly
\* one overlap issue, on the start time of the later-indexed rule, and none on
\* the first
C16_LaterIndexedOnly ==
  \A s \in Validated :
    saving[s].data.availabilities = ScenarioC
      => saving[s].issues = {OverlapIssue(1)}

\* C16 as amended: the validation puts an overlap issue on the start time of every
\* rule that overlaps another rule of its day, whatever their order in the list:
\* in Scenario C one on the rule at index 0 and one on the rule at index 1
C16_EveryOverlappingRule ==
  \A s \in Validated :
    LET a == saving[s].data.availabilities
    IN /\ \A i \in 1..Len(a) :
            OverlapIssue(i - 1) \in saving[s].issues
              <=> \E j \in 1..Len(a) : j # i /\ rulesOverlap(a[j], a[i])
       /\ a = ScenarioC => saving[s].issues = {OverlapIssue(0), OverlapIssue(1)}

C16_Witness ==
  \E s \in Validated : saving[s].data.availabilities = ScenarioC

\* C17: the validation puts an ordering issue on the end time of rule i exactly
\* when rule i's start time is not before its end time, whatever the other rules
C17_OrderingIssue ==
  \A s \in Validated :
    LET a == saving[s].data.availabilities
    IN \A i \in 1..Len(a) :
         OrderIssue(i - 1) \in saving[s].issues
           <=> minuteOfDay(a[i].startTime) >= minuteOfDay(a[i].endTime)

\* a list of two rules, one ending when it starts and flagged, the other not
C17_Witness ==
  \E s \in Validated :
    LET a == saving[s].data.availabilities
    IN /\ Len(a) = 2
       /\ \E i \in 1..2 : a[i].startTime = a[i].endTime
       /\ Cardinality({i \in 1..2 : OrderIssue(i - 1) \in saving[s].issues}) = 1

\* C18: whatever saveSchedule calls have run, succeeded or failed, every stored
\* rule starts before it ends and no two stored rules of the same schedule and
\* day overlap
C18_StoredRulesValid ==
  \A i \in 1..Len(ScheduleAvailabilityTable) :
    LET a == ScheduleAvailabilityTable[i]
    IN /\ minuteOfDay(a.startTime) < minuteOfDay(a.endTime)
       /\ \A j \in 1..Len(ScheduleAvailabilityTable) :
            LET b == ScheduleAvailabilityTable[j]
            IN (j # i /\ a.scheduleId = b.scheduleId) => ~rulesOverlap(a, b)

\* call s ends in this step
saveEnds(s) ==
  /\ saving[s].pc \notin {"returned", "threw"}
  /\ saving'[s].pc \in {"returned", "threw"}

InvalidData == <<"Failed to save schedule", "Invalid schedule data or user not authenticated.">>

\* the rules stored for the schedule of owner u, after the step
storedRules(u) ==
  {[dayOfWeek |-> a.dayOfWeek, startTime |-> a.startTime, endTime |-> a.endTime] :
     a \in {x \in Range(ScheduleAvailabilityTable') : x.scheduleId = u}}

\* C19: issues do not block storage: when a signed-in owner's saveSchedule call is
\* given a list in which some rule has an issue, the rules of the list that have
\* none are stored when the call ends (unless the database failed)
C19_ValidRulesStored ==
  [][ \A s \in Savers :
        ( /\ saveEnds(s)
          /\ saving'[s].userId # NoUser
          /\ saving'[s].issues # {}
          /\ saving'[s].error # <<"Failed to save schedule", "database">> )
        => \A i \in 1..Len(saving'[s].data.availabilities) :
             (OverlapIssue(i - 1) \notin saving'[s].issues
                /\ OrderIssue(i - 1) \notin saving'[s].issues)
             => saving'[s].data.availabilities[i] \in storedRules(saving'[s].userId) ]_vars

\* C19 as amended: issues block storage: a saveSchedule call given a list in which
\* some rule has an issue throws "Invalid schedule data or user not authenticated."
\* before it writes anything; none of the list's rules is stored and the stored
\* schedule stays as it was
C19_IssuesBlockStorage ==
  [][ \A s \in Savers :
        (saving[s].pc = "idle" /\ saving'[s].pc # "idle" /\ saving'[s].issues # {})
        => /\ saving'[s].pc = "threw"
           /\ saving'[s].error = InvalidData
           /\ ScheduleTable' = ScheduleTable
           /\ ScheduleAvailabilityTable' = ScheduleAvailabilityTable ]_vars

\* a signed-in owner's call was refused although one of its two rules has no issue
C19_Witness ==
  \E s \in Savers :
    /\ saving[s].pc = "threw"
    /\ saving[s].userId # NoUser
    /\ Len(saving[s].data.availabilities) = 2
    /\ Cardinality({i[1] : i \in saving[s].issues}) = 1

\* the schedules that were stored whole: the one stored at first, and the argument
\* of every call that has begun to write
CompleteSchedules ==
  {NoSchedule, SavedAtFirst} \cup {saving[s].data : s \in {r \in Savers : saving[r].scheduleId # ""}}

\* C20: a resolver call that reads the schedule while saveSchedule calls run gets a
\* schedule that was stored whole: the old time zone with the old rules or the new
\* time zone with the new rules, never a mixture or a part of a rule set
C20_AtomicReplacement ==
  [][ (resolving.pc = "getSchedule" /\ resolving'.pc # "getSchedule")
        => getSchedule(resolving.clerkUserId) \in CompleteSchedules ]_vars

-----------------------------------------------------------------------------
(* Concurrent saves *)

\* call s returns in this step
saveReturns(s) == saving[s].pc # "returned" /\ saving'[s].pc = "returned"

\* C21: whatever saveSchedule calls run, concurrent calls of one owner included,
\* an owner has at most one schedule row, and when a call returns the owner's
\* stored rules are exactly the list the call was given: no rule of another set
\* is stored with them
C21_ExactReplacement ==
  [][ /\ \A u \in Users : Cardinality({r \in ScheduleTable' : r.clerkUserId = u}) <= 1
      /\ \A s \in Savers :
           saveReturns(s)
             => getSchedule(saving[s].userId)'.availabilities = saving[s].data.availabilities
    ]_vars

-----------------------------------------------------------------------------
(* The resolver as a function of its inputs *)

\* C22: the list the resolver returns is fixed by the candidates, the rules and
\* the time zone of the schedule, the busy intervals and the duration: a server
\* in any other local time zone returns the same list for them
C22_HostIndependent ==
  hasFiltered(resolving)
    => \A host \in Zones :
         resolving.validTimes =
           filterTimes(host, resolving.timesInOrder, resolving.schedule,
                       resolving.eventTimes, resolving.event.durationInMinutes)

-----------------------------------------------------------------------------
(* Concurrent bookings *)

\* calls g and h are for the same owner, event and instant
sameSlot(g, h) ==
  /\ meeting[g].clerkUserId = meeting[h].clerkUserId
  /\ meeting[g].event = meeting[h].event
  /\ meeting[g].timesInOrder = meeting[h].timesInOrder

\* both calls have passed their re-check and neither has written yet
bothRechecked(g, h) ==
  /\ g # h
  /\ meeting[g].pc = "createCalendarEvent"
  /\ meeting[h].pc = "createCalendarEvent"
  /\ sameSlot(g, h)

\* C23: the race is open: when two createMeeting calls for the same owner and slot
\* have both passed their re-check before either has written, nothing holds the
\* writes back: each insert the calendar accepts succeeds, the second as well as
\* the first, and the calendar then holds two bookings over the same interval
C23_BothWritesLand ==
  [][ \A g \in Guests, h \in Guests :
        ( /\ g # h
          /\ sameSlot(g, h)
          /\ meeting[g].pc = "createCalendarEvent"
          /\ meeting[h].pc \in {"createCalendarEvent", "returned"}
          /\ meeting'[g] # meeting[g]
          /\ googleUp )
        => /\ meeting'[g].pc = "returned"
           /\ calendar'[meeting[g].clerkUserId] =
                calendar[meeting[g].clerkUserId] \cup {bookedEvent(g, meeting[g])}
           /\ meeting[h].pc = "returned"
                => \E e \in calendar'[meeting[g].clerkUserId] :
                     /\ e.creator = h
                     /\ e.start = chosen(g)
                     /\ e.end = chosenEnd(g)
    ]_vars

\* two calls for one slot have returned and the calendar holds both bookings
C23_Witness ==
  \E g \in Guests, h \in Guests :
    /\ g # h
    /\ sameSlot(g, h)
    /\ meeting[g].pc = "returned"
    /\ meeting[h].pc = "returned"
    /\ meeting[g].eventTimes = {}
    /\ meeting[h].eventTimes = {}
    /\ {bookedEvent(g, meeting[g]), bookedEvent(h, meeting[h])}
         \subseteq calendar[meeting[g].clerkUserId]

-----------------------------------------------------------------------------
(* The overlap issue *)

\* the overlap issues among the issues of call s
overlapIssues(s) ==
  {i \in saving[s].issues : i[3] = "Availability overlaps with another"}

\* rules a and b lie on different days, or one ends when the other starts
apartOrTouching(a, b) ==
  \/ a.dayOfWeek # b.dayOfWeek
  \/ a.endTime = b.startTime
  \/ b.endTime = a.startTime

\* C24: the validation attaches an overlap issue to the start time of rule i
\* exactly when another rule j of the same day has start_j < end_i and
\* end_j > start_i; a list gets no overlap issue exactly when no two distinct
\* rules of a day overlap; rules on different days, or touching end to start,
\* are not flagged for each other
C24_OverlapIssueExact ==
  \A s \in Validated :
    LET a == saving[s].data.availabilities
        n == Len(a)
    IN /\ overlapIssues(s) =
            {OverlapIssue(i - 1) : i \in
               {k \in 1..n : \E j \in 1..n :
                  /\ j # k
                  /\ a[j].dayOfWeek = a[k].dayOfWeek
                  /\ minuteOfDay(a[j].startTime) < minuteOfDay(a[k].endTime)
                  /\ minuteOfDay(a[j].endTime) > minuteOfDay(a[k].startTime)}}
       /\ overlapIssues(s) = {}
            <=> \A i \in 1..n, j \in 1..n : i # j => ~rulesOverlap(a[i], a[j])
       /\ (n = 2 /\ apartOrTouching(a[1], a[2])) => overlapIssues(s) = {}

\* one validated list holds two Monday rules that touch, another a Monday and a
\* Tuesday rule over the same hours; neither got an issue
C24_Witness ==
  /\ \E s \in Validated :
       /\ saving[s].data.availabilities =
            <<Rule("monday", 9, 0, 11, 0), Rule("monday", 11, 0, 12, 0)>>
       /\ saving[s].issues = {}
  /\ \E s \in Validated :
       /\ saving[s].data.availabilities =
            <<Rule("tuesday", 10, 0, 12, 0), Rule("monday", 10, 0, 12, 0)>>
       /\ saving[s].issues = {}

-----------------------------------------------------------------------------
(* Browse and commit *)

\* the 15-minute candidate lists of a page render that contain instant t: as the
\* first, a middle or the last candidate
browseLists(t) ==
  {eachMinuteOfInterval(t - k * BrowseStep, t + (MaxCandidates - 1 - k) * BrowseStep,
                        BrowseStep) : k \in 0..(MaxCandidates - 1)}

\* what a page render for the event of call g returns now for such a list
browseResolution(g, list) ==
  filterTimes(hostTz, list, getSchedule(meeting[g].clerkUserId),
              getCalendarEventTimes(googleUp, calendar[meeting[g].clerkUserId],
                                    list[1], list[Len(list)]).value,
              meeting[g].event.durationInMinutes)

\* C25: browse and commit agree: on the same schedule and calendar, the re-check
\* of createMeeting accepts an instant exactly when a page render over a
\* 15-minute list containing that instant keeps it
C25_BrowseCommitAgree ==
  [][ \A g \in Guests :
        (recheck(g) /\ googleUp)
        => \A list \in browseLists(chosen(g)) :
             meeting'[g].pc = "createCalendarEvent"
               <=> chosen(g) \in Range(browseResolution(g, list)) ]_vars

-----------------------------------------------------------------------------
(* The booking form's round trip *)

\* C26: the instant createMeeting re-checks for a submitted form is the instant
\* of the page's list the visitor selected, whatever time zone the visitor chose
\* and whatever the local time zones of the browser and of the server
C26_RoundTrip ==
  [][ ( /\ meeting[1].pc = "idle"
        /\ meeting'[1].pc \notin {"idle", "threw"} )
      => meeting'[1].timesInOrder[1] \in Range(page.validTimes) ]_vars

-----------------------------------------------------------------------------
(* What createMeeting writes *)

\* the record of EventTable with that id
eventRecord(id) == CHOOSE e \in EventTable : e.id = id

\* C27: the calendar event a createMeeting call writes spans the interval it
\* re-checked: it starts at the instant the call validated and ends the event
\* record's durationInMinutes later, and it is written only after the call's own
\* re-check returned that instant
C27_WritesRecheckedInterval ==
  [][ \A g \in Guests :
        insertedBy(g)' # insertedBy(g)
        => /\ meeting[g].pc = "createCalendarEvent"
           /\ hasFiltered(meeting[g])
           /\ meeting[g].validTimes = meeting[g].timesInOrder
           /\ Len(meeting[g].validTimes) = 1
           /\ \E e \in insertedBy(g)' :
                /\ insertedBy(g)' = insertedBy(g) \cup {e}
                /\ e \in calendar'[meeting[g].clerkUserId]
                /\ e.start = meeting[g].validTimes[1]
                /\ e.end = e.start + eventRecord(meeting[g].event.id).durationInMinutes
    ]_vars

\* a booking of the 15-minute event and one of a 30-minute event are written
C27_Witness ==
  \E g \in Guests, h \in Guests :
    /\ meeting[g].pc = "returned"
    /\ meeting[g].event.id = "e15"
    /\ \E e \in insertedBy(g) : e.end - e.start = 15
    /\ meeting[h].pc = "returned"
    /\ meeting[h].event.id = "e30"
    /\ \E e \in insertedBy(h) : e.end - e.start = 30


\* the call works for an active record of EventTable and for that record's owner
forActiveEvent(call) ==
  /\ call.event \in EventTable
  /\ call.event.isActive
  /\ call.event.clerkUserId = call.clerkUserId

EventNotFound == <<"Failed to create meeting", "Event not found.">>

\* C28: createMeeting writes a calendar event only for an event record that
\* exists, is active and belongs to the submitted owner, and into that owner's
\* calendar; a call that finds no such record fails with "Event not found." at
\* once, before it has read the schedule or called the calendar
C28_OnlyForActiveEvent ==
  [][ \A g \in Guests :
        /\ (meeting[g].pc = "idle" /\ meeting'[g].pc # "idle")
           => /\ meeting'[g].pc # "threw" => forActiveEvent(meeting'[g])
              /\ meeting'[g].pc = "threw"
                   => /\ meeting'[g].error \in
                           {EventNotFound, <<"Failed to create meeting", "Invalid data.">>}
                      /\ meeting'[g].schedule = NoSchedule
                      /\ meeting'[g].eventTimes = {}
                      /\ calendar' = calendar
        /\ meeting'[g].pc \in {"getSchedule", "getCalendarEventTimes",
                               "createCalendarEvent", "returned"}
           => forActiveEvent(meeting'[g])
        /\ insertedBy(g)' # insertedBy(g)
           => /\ forActiveEvent(meeting[g])
              /\ \A u \in Users \ {meeting[g].event.clerkUserId} :
                   calendar'[u] = calendar[u]
    ]_vars

\* one call found no event and failed, another has booked
C28_Witness ==
  /\ \E g \in Guests : meeting[g].pc = "threw" /\ meeting[g].error = EventNotFound
  /\ \E g \in Guests : meeting[g].pc = "returned" /\ insertedBy(g) # {}
  /\ \A g \in Guests : meeting[g].pc = "threw" => insertedBy(g) = {}

-----------------------------------------------------------------------------
(* Failed saves *)

\* the schedule of owner u1 before the one saveSchedule call ran
storedAtFirst == {NoSchedule, SavedAtFirst}

\* C29: a saveSchedule call that throws, for invalid data, a missing session or a
\* database failure at any of its writes, leaves the owner's stored time zone and
\* rules as they were before the call
C29_FailureChangesNothing ==
  saving[1].pc = "threw" => getSchedule("u1") \in storedAtFirst

-----------------------------------------------------------------------------
(* Bookings and the clock *)

\* C30: createMeeting never books in the past: whenever a call arrives after the
\* server has started, a start time earlier than the clock's time at the call is
\* rejected by the validation, so that the call goes no further and writes no
\* calendar event
C30_NeverInThePast ==
  [][ \A g \in Guests :
        (meeting[g].pc = "idle" /\ meeting'[g].pc \notin {"idle", "threw"})
        => meeting'[g].timesInOrder[1] >= clock ]_vars

====
